---- MODULE Spec2Model ----
(***************************************************************************)
(* WhatsApp Notification (frappe_whatsapp): the send pipeline of a         *)
(* notification rule, its two dispatch backends and the daily scheduler.   *)
(*                                                                         *)
(* Text values (phone numbers, file names, URLs, messages) are sequences   *)
(* of characters or tokens; identifiers (field names, doctypes) are        *)
(* atomic strings.  An optional value is a sequence of length 0 or 1       *)
(* where a Python object may be None.                                      *)
(***************************************************************************)
EXTENDS Integers, Sequences, FiniteSets, TLC

VARIABLES
    self,                  \* the WhatsApp Notification document (the rule)
    requests_sent,         \* HTTP requests issued to a provider, in order
    messages,              \* "WhatsApp Message" records (Sent Message Records)
    logs,                  \* "WhatsApp Notification Log" records
    db_value,              \* write-back field of each triggering record
    integration_request,   \* frappe.flags.integration_request
    call,                  \* the handler call that produced this state
    sched                  \* position of the daily scheduler loop

vars == <<self, requests_sent, messages, logs, db_value, integration_request, call, sched>>

----------------------------------------------------------------------------
(* Bounds *)

\* number of handler calls (interactive or event driven) in one behaviour
MaxCalls == 1

\* largest days_in_advance of a scheduled rule
MaxOffset == 3

\* the most placeholders of a message body
MaxPlaceholders == 2

\* the most field mappings of a rule
MaxFields == 2

----------------------------------------------------------------------------
(* Python values *)

None == <<"None">>

\* Python truth value of a str-or-None
Truthy(s) == s # None /\ s # <<>>

Some(x) == <<x>>
Nothing == <<>>

EmptyDict == [k \in {} |-> k]

\* dict.get(key, default)
Get(d, k, default) == IF k \in DOMAIN d THEN d[k] ELSE default

StartsWith(s, prefix) ==
    /\ Len(s) >= Len(prefix)
    /\ SubSeq(s, 1, Len(prefix)) = prefix

EndsWith(s, suffix) ==
    /\ Len(s) >= Len(suffix)
    /\ SubSeq(s, Len(s) - Len(suffix) + 1, Len(s)) = suffix

LowerChar(c) ==
    CASE c = "P" -> "p"
      [] c = "D" -> "d"
      [] c = "F" -> "f"
      [] c = "R" -> "r"
      [] OTHER -> c

\* the suffix test without lowering: the string as it is
LowerKeepingCase(s) == s

\* str.lower()
Lower(s) == [i \in 1..Len(s) |-> LowerChar(s[i])]

Digits == <<"0", "1", "2", "3", "4", "5", "6", "7", "8", "9">>

IsDigit(c) == \E i \in 1..10 : Digits[i] = c

DigitValue(c) == (CHOOSE i \in 1..10 : Digits[i] = c) - 1

RECURSIVE ParseInt(_, _)
ParseInt(s, acc) ==
    IF s = <<>> THEN acc ELSE ParseInt(Tail(s), 10 * acc + DigitValue(Head(s)))

\* frappe.utils.cint: the integer a string denotes, 0 when it denotes none
cint(value) ==
    IF Truthy(value) /\ \A i \in 1..Len(value) : IsDigit(value[i])
    THEN ParseInt(value, 0)
    ELSE 0

----------------------------------------------------------------------------
(* The host application: schema of the triggering record type *)

ReferenceDoctype == "Task"

\* frappe.get_meta(doctype): fieldname -> fieldtype
Meta ==
    [mobile |-> "Data", file |-> "Attach", status |-> "Data",
     notified |-> "Check", due_date |-> "Datetime"]

numeric_fieldtypes == {"Currency", "Int", "Long Int", "Float", "Percent", "Check"}

\* frappe.utils.get_url()
get_url == <<"http", "://site">>

----------------------------------------------------------------------------
(* Phone Formatter *)

\* format_number: strip one leading "+"
format_number(number) ==
    IF StartsWith(number, <<"+">>) THEN SubSeq(number, 2, Len(number)) ELSE number

----------------------------------------------------------------------------
(* Backend B: the Evolution API gateway *)

PdfSuffix == <<".", "p", "d", "f">>

\* request timeout of the gateway call, in seconds
PostTimeout == 30

\* notify_evolution, "Determine content type and endpoint": the URL path, the
\* JSON payload and the content type chosen from the attachment state
EvolutionRequest(settings, phone_number, message_text, attachment_url, filename) ==
    IF Truthy(attachment_url)
    THEN IF Truthy(filename) /\ EndsWith(Lower(filename), PdfSuffix)
         THEN [url |-> <<settings.base_url, "/message/sendMedia/", settings.instance_name>>,
               payload |-> [number |-> phone_number,
                            mediatype |-> "document",
                            mimetype |-> "application/pdf",
                            caption |-> message_text,
                            media |-> attachment_url,
                            fileName |-> filename],
               content_type |-> "document",
               message_text |-> message_text,
               timeout |-> PostTimeout]
         ELSE [url |-> <<settings.base_url, "/message/sendMedia/", settings.instance_name>>,
               payload |-> [number |-> phone_number,
                            mediatype |-> "image",
                            caption |-> message_text,
                            media |-> attachment_url],
               content_type |-> "image",
               message_text |-> message_text,
               timeout |-> PostTimeout]
    ELSE LET text == IF message_text = None THEN <<"No Text">> ELSE message_text
         IN  [url |-> <<settings.base_url, "/message/sendText/", settings.instance_name>>,
              payload |-> [number |-> phone_number, text |-> text],
              content_type |-> "text",
              message_text |-> text,
              timeout |-> PostTimeout]

\* the HTTP statuses notify_evolution takes as success
\* the status test accepting 200 alone
SuccessStatusOnly200(status_code) == status_code = 200

SuccessStatus(status_code) == status_code \in {200, 201}

\* "Extract message ID from response"
ExtractMessageId(response_data) ==
    LET first == Get(Get(response_data, "key", EmptyDict), "id", <<>>)
    IN  IF Truthy(first) THEN first
        ELSE Get(Get(Get(response_data, "message", EmptyDict), "key", EmptyDict), "id", <<>>)

\* the error detail read from the response's "error" member
ExtractErrorMessageFromError(response_data) ==
    Get(Get(response_data, "response", EmptyDict), "error", <<"Unknown Error">>)

\* the error detail taken from a rejected request's body
ExtractErrorMessage(response_data) ==
    Get(Get(response_data, "response", EmptyDict), "message", <<"Unknown Error">>)

\* the write-back without the coercion of numeric fields
WriteBackUncoerced(rule, doc_data) ==
    IF /\ doc_data # EmptyDict
       /\ rule.set_property_after_alert # ""
       /\ Truthy(rule.property_value)
       /\ Get(doc_data, "doctype", "") # ""
       /\ Get(doc_data, "name", "") # ""
       /\ rule.set_property_after_alert \in DOMAIN Meta
    THEN Some([doctype |-> doc_data.doctype,
               name |-> doc_data.name,
               fieldname |-> rule.set_property_after_alert,
               value |-> [str |-> rule.property_value]])
    ELSE Nothing

\* "Update property after alert if configured": the frappe.db.set_value call
\* made after a send, if any (shared by both backends)
WriteBack(rule, doc_data) ==
    IF /\ doc_data # EmptyDict
       /\ rule.set_property_after_alert # ""
       /\ Truthy(rule.property_value)
       /\ Get(doc_data, "doctype", "") # ""
       /\ Get(doc_data, "name", "") # ""
       /\ rule.set_property_after_alert \in DOMAIN Meta
    THEN Some([doctype |-> doc_data.doctype,
               name |-> doc_data.name,
               fieldname |-> rule.set_property_after_alert,
               value |-> IF Meta[rule.set_property_after_alert] \in numeric_fieldtypes
                         THEN [int |-> cint(rule.property_value)]
                         ELSE [str |-> rule.property_value]])
    ELSE Nothing

\* the WhatsApp Message record notify_evolution saves
EvolutionMessage(rule, req, phone_number, message_id, doc_data, parameters) ==
    [type |-> "Outgoing",
     message |-> req.message_text,
     to |-> phone_number,
     message_type |-> "Template",
     message_id |-> message_id,
     content_type |-> req.content_type,
     use_template |-> 1,
     template |-> rule.template,
     template_parameters |-> IF parameters # <<>> THEN Some([json |-> parameters]) ELSE Nothing,
     reference_doctype |-> IF doc_data # EmptyDict THEN Some(Get(doc_data, "doctype", "")) ELSE Nothing,
     reference_name |-> IF doc_data # EmptyDict THEN Some(Get(doc_data, "name", "")) ELSE Nothing]

\* the settings test looking at the base URL alone
SettingsConfiguredBaseUrlOnly(settings) == Truthy(settings.base_url)

\* "if not evolution_settings.base_url or not evolution_settings.instance_name"
SettingsConfigured(settings) ==
    Truthy(settings.base_url) /\ Truthy(settings.instance_name)

\* the success flag as notify_evolution holds it when an exception leaves the
\* success branch: it was set as soon as the status was read
SuccessFlagOnException(status_ok) == status_ok

\* the WhatsApp Notification Log record written in the finally block
EvolutionLog(rule, success, response_data, error_message, phone_number, message_text) ==
    [template |-> rule.template,
     meta_data |-> [success |-> success,
                    response |-> IF success THEN response_data ELSE Nothing,
                    error |-> IF ~success THEN error_message ELSE Nothing,
                    phone_number |-> phone_number,
                    message |-> message_text]]

\* What one notify_evolution call does.  env gives what the world answers:
\*   settings     the Evolution Phone Settings record, if it exists
\*   response     the HTTP response [status_code, body], or none (transport error)
\*   decode_error the class of the exception response.json() raises on a body
\*                that is not JSON
\*   save, set_value  whether persisting raises
notify_evolution(rule, phone_number, message_text, attachment_url, filename, template, doc_data, parameters, env) ==
    LET nothing_done ==
            [requests |-> <<>>, messages |-> <<>>, logs |-> <<>>,
             set_value |-> Nothing, caught |-> Nothing, status |-> Nothing,
             dispatched |-> FALSE]
    IN
    IF env.settings = Nothing
    THEN [raised |-> Some("DoesNotExistError")] @@ nothing_done
    ELSE
    LET settings == env.settings[1] IN
    IF ~SettingsConfigured(settings)
    THEN [raised |-> Some("Evolution Phone Settings not configured")] @@ nothing_done
    ELSE
    LET req == EvolutionRequest(settings, phone_number, message_text, attachment_url, filename)
        request == [url |-> req.url, payload |-> req.payload, timeout |-> req.timeout,
                    headers |-> [apikey |-> settings.global_api_key]]
        \* the try block, up to the first exception
        outcome ==
            IF env.response = Nothing
            THEN [success |-> FALSE, response_data |-> Nothing, messages |-> <<>>,
                  set_value |-> Nothing,
                  caught |-> Some([class |-> "RequestException", at |-> "post"]),
                  error_message |-> Some(<<"Connection error: ", "timed out">>)]
            ELSE
            LET response == env.response[1] IN
            IF response.body = Nothing
            THEN [success |-> FALSE, response_data |-> Nothing, messages |-> <<>>,
                  set_value |-> Nothing,
                  caught |-> Some([class |-> env.decode_error, at |-> "json"]),
                  error_message |->
                      IF env.decode_error = "RequestException"
                      THEN Some(<<"Connection error: ", "Expecting value">>)
                      ELSE Some(<<"Expecting value">>)]
            ELSE
            LET response_data == response.body[1] IN
            IF SuccessStatus(response.status_code)
            THEN
                LET message == EvolutionMessage(rule, req, phone_number,
                                   ExtractMessageId(response_data), doc_data, parameters)
                    wb == WriteBack(rule, doc_data)
                IN
                IF env.save = "raise"
                THEN [success |-> SuccessFlagOnException(TRUE),
                      response_data |-> Some(response_data), messages |-> <<>>,
                      set_value |-> Nothing,
                      caught |-> Some([class |-> "Exception", at |-> "save"]),
                      error_message |-> Some(<<"save failed">>)]
                ELSE IF wb # Nothing /\ env.set_value = "raise"
                THEN [success |-> SuccessFlagOnException(TRUE),
                      response_data |-> Some(response_data), messages |-> <<message>>,
                      set_value |-> Nothing,
                      caught |-> Some([class |-> "Exception", at |-> "set_value"]),
                      error_message |-> Some(<<"set_value failed">>)]
                ELSE [success |-> TRUE,
                      response_data |-> Some(response_data), messages |-> <<message>>,
                      set_value |-> wb, caught |-> Nothing,
                      error_message |-> Nothing]
            ELSE [success |-> FALSE, response_data |-> Some(response_data),
                  messages |-> <<>>, set_value |-> Nothing, caught |-> Nothing,
                  error_message |-> Some(ExtractErrorMessage(response_data))]
    IN  [raised |-> Nothing,
         requests |-> <<request>>,
         messages |-> outcome.messages,
         logs |-> <<EvolutionLog(rule, outcome.success, outcome.response_data,
                                 outcome.error_message, phone_number, req.message_text)>>,
         set_value |-> outcome.set_value,
         caught |-> outcome.caught,
         status |-> IF env.response = Nothing THEN Nothing
                    ELSE Some(env.response[1].status_code),
         dispatched |-> TRUE]

----------------------------------------------------------------------------
(* Condition Evaluator, Attachment Resolver and the send pipeline *)

\* the result of a pipeline that made no dispatch attempt
NoDispatch ==
    [requests |-> <<>>, messages |-> <<>>, logs |-> <<>>, set_value |-> Nothing,
     caught |-> Nothing, status |-> Nothing, dispatched |-> FALSE]

\* the gate without the early return on a false condition
ConditionGateNoSkip(rule, ignore_condition, condition_value) ==
    IF rule.disabled THEN "skip"
    ELSE IF Truthy(rule.condition) /\ ~ignore_condition /\ condition_value = "raise"
         THEN "raise"
         ELSE "send"

\* send_template_message, the gate: "skip" (disabled rule, or a condition that
\* evaluates false), "raise" (the condition raises) or "send".
\* condition_value is what frappe.safe_eval returns for the rule's condition.
ConditionGate(rule, ignore_condition, condition_value) ==
    IF rule.disabled THEN "skip"
    ELSE IF Truthy(rule.condition) /\ ~ignore_condition
         THEN CASE condition_value = "raise" -> "raise"
                [] condition_value = "falsy" -> "skip"
                [] OTHER -> "send"
         ELSE "send"

\* "Get phone number": the unformatted number, None when there is none
ResolvePhone(rule, doc_data, phone_no) ==
    IF rule.field_name # ""
    THEN IF Truthy(phone_no) THEN phone_no ELSE doc_data[rule.field_name]
    ELSE phone_no

\* the message the PDF renderer's failure is reported with
PdfErrorRaised(error_msg) ==
    IF error_msg = <<"HostNotFoundError">>
    THEN "PDF generation failed due to network error"
    ELSE "PdfError"

\* the URL step dropping a relative URL
AbsoluteUrlOrNone(file_url) ==
    IF StartsWith(file_url, <<"http">>) THEN file_url ELSE None

\* "if file_url.startswith('http') ... else": the URL the gateway can fetch
AbsoluteUrl(file_url) ==
    IF StartsWith(file_url, <<"http">>) THEN file_url ELSE get_url \o file_url

\* "Handle attachments": [raised, attachment_url, filename].
\* pdf is what frappe.attach_print answers: [fname, fcontent] or an error.
ResolveAttachment(rule, doc_data, pdf) ==
    IF rule.attach_document_print
    THEN IF "error" \in DOMAIN pdf
         THEN [raised |-> Some(PdfErrorRaised(pdf.error)),
               attachment_url |-> None, filename |-> None]
         ELSE [raised |-> Nothing,
               attachment_url |-> <<"base64">> \o pdf.fcontent,
               filename |-> pdf.fname]
    ELSE IF rule.custom_attachment
    THEN IF rule.attach_from_field # "" /\ doc_data[rule.attach_from_field] = None
         THEN [raised |-> Some("AttributeError"),
               attachment_url |-> None, filename |-> rule.file_name]
         ELSE IF rule.attach_from_field = "" /\ rule.attach = None
         THEN [raised |-> Some("AttributeError"),
               attachment_url |-> None, filename |-> rule.file_name]
         ELSE
         LET file_url ==
                 IF rule.attach_from_field # ""
                 THEN LET field_url == doc_data[rule.attach_from_field]
                      IN  IF ~StartsWith(field_url, <<"http">>)
                          THEN get_url \o field_url \o <<"&key=", "sharekey">>
                          ELSE field_url
                 ELSE rule.attach
         IN  [raised |-> Nothing,
              attachment_url |-> AbsoluteUrl(file_url),
              filename |-> rule.file_name]
    ELSE [raised |-> Nothing, attachment_url |-> None, filename |-> None]

\* str(i) for a positive integer
RECURSIVE Str(_)
Str(i) ==
    IF i < 10 THEN <<Digits[i + 1]>> ELSE Str(i \div 10) \o <<Digits[(i % 10) + 1]>>

\* f"{{{{{i}}}}}": the text of the i-th placeholder
Placeholder(i) == <<"{", "{">> \o Str(i) \o <<"}", "}">>

\* str.replace(old, new): every occurrence of old, found from left to right
\* without overlap, becomes new; old is never empty here
RECURSIVE Replace(_, _, _)
Replace(text, old, new) ==
    IF Len(text) < Len(old) THEN text
    ELSE IF SubSeq(text, 1, Len(old)) = old
         THEN new \o Replace(SubSeq(text, Len(old) + 1, Len(text)), old, new)
         ELSE <<Head(text)>> \o Replace(Tail(text), old, new)

\* str.strip() of the blanks
RECURSIVE Strip(_)
Strip(text) ==
    IF text # <<>> /\ Head(text) = " " THEN Strip(Tail(text))
    ELSE IF text # <<>> /\ text[Len(text)] = " " THEN Strip(SubSeq(text, 1, Len(text) - 1))
    ELSE text

\* _(msg, 'ar'): the Arabic translation the site holds for the stripped
\* message, the message itself when it holds none.  translations is the
\* site's table, a set of [msg, translated]
Translate(msg, translations) ==
    IF \E t \in translations : t.msg = Strip(msg)
    THEN (CHOOSE t \in translations : t.msg = Strip(msg)).translated
    ELSE msg

\* "for field in self.fields": the value of each mapped field, in order
Parameters(rule, doc_data) ==
    [i \in 1..Len(rule.fields) |-> doc_data[rule.fields[i]]]

\* "for i, param in enumerate(parameters, 1)": the replacements made one
\* after the other from the i-th parameter on, each on the result of the one
\* before
RECURSIVE ReplaceParameters(_, _, _, _)
ReplaceParameters(message_text, parameters, i, translations) ==
    IF i > Len(parameters) THEN message_text
    ELSE ReplaceParameters(Replace(message_text, Placeholder(i),
                                   Translate(parameters[i], translations)),
                           parameters, i + 1, translations)

\* "Replace parameters in template": the text sent for the rule's code
RenderMessage(rule, doc_data, translations) ==
    IF rule.fields # <<>>
    THEN ReplaceParameters(rule.code, Parameters(rule, doc_data), 1, translations)
    ELSE rule.code

\* What one send_template_message call does.  env adds to notify_evolution's:
\*   condition  what the condition expression evaluates to
\*   template   the WhatsApp Templates row, if it exists
\*   pdf        what the print renderer answers
\*   translations  the site's Arabic translations
send_template_message(rule, doc_data, phone_no, default_template, ignore_condition, env) ==
    LET gate == ConditionGate(rule, ignore_condition, env.condition)
        stopped(skipped, raised) ==
            [skipped |-> skipped, raised |-> raised,
             attachment_url |-> None, filename |-> None, resolved |-> FALSE] @@ NoDispatch
    IN
    IF gate = "skip" THEN stopped(TRUE, Nothing)
    ELSE IF gate = "raise" THEN stopped(FALSE, Some("ConditionError"))
    ELSE
    LET phone_number == ResolvePhone(rule, doc_data, phone_no) IN
    IF ~Truthy(phone_number) THEN stopped(FALSE, Some("Phone number not found"))
    ELSE
    LET template == IF default_template # Nothing THEN default_template ELSE env.template IN
    IF template = Nothing THEN stopped(FALSE, Some("Template not found"))
    ELSE
    LET message_text == RenderMessage(rule, doc_data, env.translations)
        parameters == Parameters(rule, doc_data)
        att == ResolveAttachment(rule, doc_data, env.pdf)
    IN
    IF att.raised # Nothing THEN stopped(FALSE, att.raised)
    ELSE
    [skipped |-> FALSE, attachment_url |-> att.attachment_url,
     filename |-> att.filename, resolved |-> TRUE]
    @@ notify_evolution(rule, format_number(phone_number), message_text,
                        att.attachment_url, att.filename, template[1], doc_data,
                        parameters, env)

----------------------------------------------------------------------------
(* Backend A: the graph-style template API *)

\* bool(frappe.flags.integration_request): a requests.Response is true when
\* its status is below 400
FlagTruthy(flag) == flag # Nothing /\ flag[1].ok

\* frappe.integrations.utils.make_post_request as notify uses it: the flag
\* afterwards, and the JSON returned or the exception raised.
\*   post.received = FALSE   no response: the flag keeps its value
\*   post.ok = FALSE         raise_for_status raises
\*   post.ok = TRUE          the body is returned
make_post_request(flag, post) ==
    IF ~post.received
    THEN [flag |-> flag, raised |-> Some(<<"ConnectionError">>), response |-> EmptyDict]
    ELSE IF ~post.ok
    THEN [flag |-> Some(post), raised |-> Some(<<"HTTPError">>), response |-> EmptyDict]
    ELSE [flag |-> Some(post), raised |-> Nothing, response |-> post.json]

\* the WhatsApp Message record notify saves
GraphMessage(rule, data, message_id, content_type, doc_data) ==
    [type |-> "Outgoing",
     message |-> data.template,
     to |-> data.to,
     message_type |-> "Template",
     message_id |-> message_id,
     content_type |-> content_type,
     use_template |-> 1,
     template |-> rule.template,
     template_parameters |->
         IF data.template.components # <<>>
         THEN Some([json |-> [i \in 1..Len(data.template.components[1].parameters) |->
                                  data.template.components[1].parameters[i].text]])
         ELSE Nothing,
     reference_doctype |-> IF doc_data # EmptyDict THEN Some(Get(doc_data, "doctype", "")) ELSE Nothing,
     reference_name |-> IF doc_data # EmptyDict THEN Some(Get(doc_data, "name", "")) ELSE Nothing]

\* notify, the try block up to its end or its first exception:
\* [success, exception, at (the statement that raised), messages, set_value]
GraphTry(rule, data, doc_data, content_type, posted, env) ==
    IF posted.raised # Nothing
    THEN [success |-> FALSE, exception |-> posted.raised, at |-> "post",
          messages |-> <<>>, set_value |-> Nothing]
    ELSE IF ~("messages" \in DOMAIN posted.response /\ posted.response.messages # <<>>)
    THEN [success |-> FALSE, exception |-> Some(<<"KeyError: 'messages'">>),
          at |-> "response", messages |-> <<>>, set_value |-> Nothing]
    ELSE
    LET message == GraphMessage(rule, data, posted.response.messages[1].id,
                                IF content_type = "" THEN "text" ELSE content_type,
                                doc_data)
        wb == WriteBack(rule, doc_data)
    IN  IF env.save = "raise"
        THEN [success |-> FALSE, exception |-> Some(<<"save failed">>),
              at |-> "save", messages |-> <<>>, set_value |-> Nothing]
        ELSE IF wb # Nothing /\ env.set_value = "raise"
        THEN [success |-> FALSE, exception |-> Some(<<"set_value failed">>),
              at |-> "set_value", messages |-> <<message>>, set_value |-> Nothing]
        ELSE [success |-> TRUE, exception |-> Nothing, at |-> "",
              messages |-> <<message>>, set_value |-> wb]

\* notify, the except block: the error message it captures and the exception
\* the block itself raises, if any
GraphExcept(exception, flag) ==
    IF FlagTruthy(flag)
    THEN IF "error" \in DOMAIN flag[1].json
         THEN [error_message |->
                   Get(flag[1].json.error, "Error",
                       Get(flag[1].json.error, "message", None)),
               raised |-> Nothing]
         ELSE [error_message |-> exception[1], raised |-> Some("KeyError: 'error'")]
    ELSE [error_message |-> exception[1], raised |-> Nothing]

\* What one notify call does: the dispatch attempt's record and the flag after it
notify(rule, data, doc_data, content_type, flag, env) ==
    LET posted == make_post_request(flag, env.post)
        tried == GraphTry(rule, data, doc_data, content_type, posted, env)
        handled == IF tried.exception = Nothing
                   THEN [error_message |-> None, raised |-> Nothing]
                   ELSE GraphExcept(tried.exception, posted.flag)
        log == [template |-> rule.template,
                meta_data |-> IF ~tried.success
                              THEN [error |-> handled.error_message]
                              ELSE posted.flag[1].json]
    IN  [backend |-> "A",
         accepted |-> posted.raised = Nothing,
         caught |-> IF tried.exception = Nothing THEN Nothing
                    ELSE Some([class |-> "Exception", at |-> tried.at,
                               message |-> tried.exception[1]]),
         raised |-> handled.raised,
         requests |-> <<[url |-> <<"/messages">>, payload |-> data]>>,
         messages |-> tried.messages,
         logs |-> <<log>>,
         set_value |-> tried.set_value,
         flag |-> posted.flag]

\* the payload send_simple_template builds for one contact
SimpleTemplateData(template, contact) ==
    [messaging_product |-> "whatsapp",
     to |-> format_number(contact),
     type |-> "template",
     template |-> [name |-> template.actual_name,
                   language |-> [code |-> template.language_code],
                   components |-> <<>>]]

LowerName(name) == IF name = "TEXT" THEN "text" ELSE name

\* send_simple_template: notify for each contact in turn, until one raises:
\* [raised, notifies, flag]
RECURSIVE send_simple_template(_, _, _, _, _)
send_simple_template(rule, template, contacts, envs, flag) ==
    IF contacts = <<>>
    THEN [raised |-> Nothing, notifies |-> <<>>, flag |-> flag]
    ELSE LET a == notify(rule, SimpleTemplateData(template, Head(contacts)), EmptyDict,
                         LowerName(Get(template, "header_type", "text")), flag, Head(envs))
         IN  IF a.raised # Nothing
             THEN [raised |-> a.raised, notifies |-> <<a>>, flag |-> a.flag]
             ELSE LET rest == send_simple_template(rule, template, Tail(contacts),
                                                   Tail(envs), a.flag)
                  IN  [raised |-> rest.raised, notifies |-> <<a>> \o rest.notifies,
                       flag |-> rest.flag]

----------------------------------------------------------------------------
(* The notification rule *)

\* validate(): whether the rule document may be saved
validate(rule) ==
    /\ rule.notification_type = "DocType Event" => rule.field_name \in DOMAIN Meta
    /\ rule.custom_attachment => (Truthy(rule.attach) \/ rule.attach_from_field # "")
    /\ rule.set_property_after_alert # "" => rule.set_property_after_alert \in DOMAIN Meta

FileNames ==
    {None,
     <<"r", ".", "p", "d", "f">>,
     <<"R", ".", "P", "D", "F">>,
     <<"i", ".", "p", "n", "g">>}

BaseRule ==
    [notification_type |-> "DocType Event",
     reference_doctype |-> ReferenceDoctype,
     doctype_event |-> "After Save",
     days_in_advance |-> 0,
     date_changed |-> "due_date",
     disabled |-> FALSE,
     condition |-> <<>>,
     field_name |-> "mobile",
     template |-> "welcome",
     code |-> <<"Hello">>,
     fields |-> <<>>,
     attach_document_print |-> FALSE,
     custom_attachment |-> FALSE,
     file_name |-> None,
     attach_from_field |-> "",
     attach |-> None,
     set_property_after_alert |-> "",
     property_value |-> None,
     sender_number |-> "main"]

\* attachment configurations: none, document print, custom (static file or
\* a file named by a field of the record) under each file name
AttachmentConfigs ==
    {[attach_document_print |-> FALSE, custom_attachment |-> FALSE,
      file_name |-> None, attach_from_field |-> "", attach |-> None],
     [attach_document_print |-> TRUE, custom_attachment |-> FALSE,
      file_name |-> None, attach_from_field |-> "", attach |-> None]}
    \cup
    {[attach_document_print |-> FALSE, custom_attachment |-> TRUE,
      file_name |-> f, attach_from_field |-> "", attach |-> <<"/files/a">>]
        : f \in FileNames}
    \cup
    {[attach_document_print |-> FALSE, custom_attachment |-> TRUE,
      file_name |-> f, attach_from_field |-> "file", attach |-> None]
        : f \in FileNames}

\* write-back configurations: none, a numeric field, a text field, a field
\* with no value
WriteBackConfigs ==
    {[set_property_after_alert |-> "", property_value |-> None],
     [set_property_after_alert |-> "notified", property_value |-> <<"1">>],
     [set_property_after_alert |-> "status", property_value |-> <<"S", "e", "n", "t">>],
     [set_property_after_alert |-> "status", property_value |-> None]}

Conditions == {<<>>, <<"doc.status == 'Open'">>}

WithAttachment(rule, a) ==
    [rule EXCEPT !.attach_document_print = a.attach_document_print,
                 !.custom_attachment = a.custom_attachment,
                 !.file_name = a.file_name,
                 !.attach_from_field = a.attach_from_field,
                 !.attach = a.attach]

WithWriteBack(rule, w) ==
    [rule EXCEPT !.set_property_after_alert = w.set_property_after_alert,
                 !.property_value = w.property_value]

\* the rules of the document-event path
EventRules ==
    {[BaseRule EXCEPT !.disabled = TRUE]}
    \cup
    {WithWriteBack(WithAttachment([BaseRule EXCEPT !.condition = c], a), w)
        : c \in Conditions,
          a \in {x \in AttachmentConfigs : ~x.custom_attachment},
          w \in WriteBackConfigs}
    \cup
    {WithAttachment([BaseRule EXCEPT !.condition = c], a)
        : c \in Conditions, a \in AttachmentConfigs}

----------------------------------------------------------------------------
(* Triggering records and what the world answers *)

DocNames == {"T1", "T2"}

WriteBackFields == {"status", "notified"}

\* the records: one with a mobile number and a relative file URL, and its
\* variants: no mobile number, no file, an absolute file URL
Doc == [doctype |-> ReferenceDoctype, name |-> "T1",
        mobile |-> <<"+", "1", "2">>, file |-> <<"/files/b">>,
        subject |-> <<"x">>, status |-> <<"x">>, priority |-> <<"x">>]

Docs ==
    {Doc, [Doc EXCEPT !.mobile = <<>>]}
    \cup {[Doc EXCEPT !.file = f] : f \in {None, <<"http", "://cdn/b">>}}

TemplateRow == [actual_name |-> "welcome_en", language_code |-> "en", header_type |-> "TEXT"]

PdfOk == [fname |-> <<"T", "1", ".", "p", "d", "f">>, fcontent |-> <<"%PDF">>]

PdfErrors == {[error |-> <<"HostNotFoundError">>], [error |-> <<"TemplateSyntaxError">>]}

SettingsOk == [base_url |-> <<"http", "://evo">>, instance_name |-> <<"inst">>, global_api_key |-> "k"]

BadSettings ==
    {Nothing,
     Some([SettingsOk EXCEPT !.base_url = None]),
     Some([SettingsOk EXCEPT !.instance_name = None])}

Statuses == {200, 201, 500}

BodyKey == [key |-> [id |-> <<"m1">>]]
BodyMessageKey == [message |-> [key |-> [id |-> <<"m2">>]]]
BodyError == [response |-> [message |-> <<"number not on WhatsApp">>]]
Bodies == {BodyKey, BodyMessageKey, BodyError, EmptyDict}

DefaultEnv ==
    [condition |-> "truthy",
     template |-> Some(TemplateRow),
     pdf |-> PdfOk,
     settings |-> Some(SettingsOk),
     response |-> Some([status_code |-> 200, body |-> Some(BodyKey)]),
     decode_error |-> "RequestException",
     save |-> "ok",
     set_value |-> "ok",
     translations |-> {}]

\* what the world may answer to one send; a choice that is never read (the
\* stages after the one that fails) keeps its default
Envs ==
    {[DefaultEnv EXCEPT !.condition = c] : c \in {"falsy", "raise"}}
    \cup {[DefaultEnv EXCEPT !.template = Nothing]}
    \cup {[DefaultEnv EXCEPT !.pdf = e] : e \in PdfErrors}
    \cup {[DefaultEnv EXCEPT !.settings = st] : st \in BadSettings}
    \cup {[DefaultEnv EXCEPT !.response = Nothing]}
    \cup {[DefaultEnv EXCEPT !.response = Some([status_code |-> sc, body |-> Nothing]),
                             !.decode_error = de]
            : sc \in Statuses, de \in {"RequestException", "ValueError"}}
    \cup {[DefaultEnv EXCEPT !.response = Some([status_code |-> sc, body |-> Some(b)])]
            : sc \in Statuses, b \in Bodies}
    \cup {[DefaultEnv EXCEPT !.response = Some([status_code |-> sc, body |-> Some(b)]),
                             !.save = "raise"]
            : sc \in {200, 201}, b \in Bodies}
    \cup {[DefaultEnv EXCEPT !.response = Some([status_code |-> sc, body |-> Some(b)]),
                             !.set_value = "raise"]
            : sc \in {200, 201}, b \in Bodies}

\* the rules run by a server script: a script for a condition, and no
\* phone field needed
ScriptRules ==
    {WithWriteBack([BaseRule EXCEPT !.notification_type = "Scheduler Event",
                                    !.doctype_event = "",
                                    !.condition = <<"doc._contact_list = [...]">>,
                                    !.field_name = fn], w)
        : fn \in {"", "mobile"},
          w \in {wb \in WriteBackConfigs : Truthy(wb.property_value)
                                           \/ wb.set_property_after_alert = ""}}

Contacts == {<<"+", "4", "4">>, <<"5", "5">>}

ContactLists == {<<c>> : c \in Contacts} \cup {<< <<"+", "4", "4">>, <<"5", "5">> >>}

DataLists == {<<[name |-> "T1", phone_no |-> ph]>> : ph \in {None, <<"+", "7">>}}

\* what running the rule's script leaves behind
Scripts ==
    {[outcome |-> "raise", _contact_list |-> <<>>, _data_list |-> <<>>],
     [outcome |-> "ok", _contact_list |-> <<>>, _data_list |-> <<>>]}
    \cup {[outcome |-> "ok", _contact_list |-> cl, _data_list |-> <<>>] : cl \in ContactLists}
    \cup {[outcome |-> "ok", _contact_list |-> <<>>, _data_list |-> dl] : dl \in DataLists}

Templates == {Nothing, Some(TemplateRow), Some([TemplateRow EXCEPT !.language_code = ""])}

GraphSent == [messages |-> <<[id |-> <<"wamid.1">>]>>]
GraphError == [error |-> [message |-> <<"Unsupported post request">>]]

\* what the world may answer to one notify
GraphEnvs ==
    {[post |-> [received |-> FALSE, ok |-> FALSE, json |-> EmptyDict],
      save |-> "ok", set_value |-> "ok"]}
    \cup {[post |-> [received |-> TRUE, ok |-> FALSE, json |-> GraphError],
            save |-> "ok", set_value |-> "ok"]}
    \cup {[post |-> [received |-> TRUE, ok |-> TRUE, json |-> b],
            save |-> "ok", set_value |-> "ok"]
            : b \in {GraphSent, GraphError, EmptyDict}}
    \cup {[post |-> [received |-> TRUE, ok |-> TRUE, json |-> GraphSent],
            save |-> "raise", set_value |-> "ok"]}

SeqsOfLen(S, n) == [1..n -> S]

\* the answers to each notify of a script's contact list
GraphEnvSeqs(script) == SeqsOfLen(GraphEnvs, Len(script._contact_list))

\* the answers to each pipeline of a script's data list
EnvSeqs(script) == SeqsOfLen(Envs, Len(script._data_list))

\* the records frappe.get_doc loads for a script's data list
FoundDocs(script) == SeqsOfLen(Docs, Len(script._data_list))

----------------------------------------------------------------------------
(* State *)

NoCall ==
    [op |-> "none", n |-> 0, raised |-> Nothing, pipelines |-> <<>>, notifies |-> <<>>,
     before |-> [requests |-> 0, messages |-> 0, logs |-> 0,
                 db_value |-> [d \in DocNames |-> [f \in WriteBackFields |-> Nothing]]]]

Idle == [pc |-> "idle"]

InitStores ==
    /\ requests_sent = <<>>
    /\ messages = <<>>
    /\ logs = <<>>
    /\ db_value = [d \in DocNames |-> [f \in WriteBackFields |-> Nothing]]
    /\ integration_request = Nothing
    /\ call = NoCall
    /\ sched = Idle

Init ==
    /\ self \in EventRules \cup ScriptRules
    /\ InitStores

\* frappe.db.set_value
SetValue(table, set_value) ==
    IF set_value = Nothing THEN table
    ELSE [table EXCEPT ![set_value[1].name][set_value[1].fieldname] = Some(set_value[1].value)]

RECURSIVE Effects(_, _)
\* the records a sequence of pipelines or dispatch attempts produced, in order
Effects(done, store) ==
    IF done = <<>> THEN <<>> ELSE done[1][store] \o Effects(Tail(done), store)

RECURSIVE SetValues(_, _)
SetValues(table, done) ==
    IF done = <<>> THEN table
    ELSE SetValues(SetValue(table, done[1].set_value), Tail(done))

\* the stores after a call that ran these pipelines or dispatch attempts
Persist(done) ==
    /\ requests_sent' = requests_sent \o Effects(done, "requests")
    /\ messages' = messages \o Effects(done, "messages")
    /\ logs' = logs \o Effects(done, "logs")
    /\ db_value' = SetValues(db_value, done)

Before ==
    [requests |-> Len(requests_sent), messages |-> Len(messages), logs |-> Len(logs),
     db_value |-> db_value]

\* the record of one send_template_message pipeline with result r
Pipeline(rule, doc, phone_no, default_template, ignore_condition, env, r) ==
    [doc |-> doc.name,
     ignore_condition |-> ignore_condition,
     condition_false |-> /\ ~rule.disabled
                         /\ Truthy(rule.condition)
                         /\ ~ignore_condition
                         /\ env.condition = "falsy",
     config_error |->
         IF ConditionGate(rule, ignore_condition, env.condition) # "send" THEN ""
         ELSE IF ~Truthy(phone_no)
                 /\ (rule.field_name = "" \/ ~Truthy(doc[rule.field_name]))
         THEN "phone"
         ELSE IF default_template = Nothing /\ env.template = Nothing THEN "template"
         ELSE IF env.settings = Nothing
                 \/ ~Truthy(env.settings[1].base_url)
                 \/ ~Truthy(env.settings[1].instance_name)
         THEN "settings"
         ELSE "",
     body |-> IF r.dispatched /\ env.response # Nothing
              THEN env.response[1].body ELSE Nothing,
     backend |-> "B"] @@ r

----------------------------------------------------------------------------
(* Document-event path: the host calls send_template_message(doc) *)

SendTemplateMessage ==
    /\ sched.pc = "idle"
    /\ call.n < MaxCalls
    /\ self.notification_type = "DocType Event"
    /\ \E doc \in Docs, env \in Envs :
          LET r == send_template_message(self, doc, None, Nothing, FALSE, env)
              p == Pipeline(self, doc, None, Nothing, FALSE, env, r)
          IN  /\ Persist(<<p>>)
              /\ call' = [op |-> "send_template_message", n |-> call.n + 1,
                          raised |-> r.raised, pipelines |-> <<p>>, notifies |-> <<>>,
                          before |-> Before]
    /\ UNCHANGED <<self, integration_request, sched>>

----------------------------------------------------------------------------
(* API path: a server script calls send_scheduled_message *)

\* send_scheduled_message, the _data_list branch: the pipeline for each entry
\* in turn, until one raises: [raised, pipelines]
RECURSIVE send_data_list(_, _, _, _, _)
send_data_list(rule, template, data_list, found, envs) ==
    IF data_list = <<>>
    THEN [raised |-> Nothing, pipelines |-> <<>>]
    ELSE LET doc == Head(found)
             r == send_template_message(rule, doc, Head(data_list).phone_no,
                                        Some(template), TRUE, Head(envs))
             p == Pipeline(rule, doc, Head(data_list).phone_no, Some(template), TRUE,
                           Head(envs), r)
         IN  IF r.raised # Nothing
             THEN [raised |-> r.raised, pipelines |-> <<p>>]
             ELSE LET rest == send_data_list(rule, template, Tail(data_list),
                                             Tail(found), Tail(envs))
                  IN  [raised |-> rest.raised, pipelines |-> <<p>> \o rest.pipelines]

\* What one send_scheduled_message call does.  script is what running the
\* rule's script leaves on the rule: it raises, or sets _contact_list and
\* _data_list; template is the WhatsApp Templates row, if any.
send_scheduled_message(rule, script, template, found, envs_a, envs_b, flag) ==
    LET nothing == [raised |-> Nothing, pipelines |-> <<>>, notifies |-> <<>>, flag |-> flag]
    IN
    IF script.outcome = "raise"
    THEN [nothing EXCEPT !.raised = Some("ScriptError")]
    ELSE IF template = Nothing \/ template[1].language_code = ""
    THEN nothing
    ELSE IF script._contact_list # <<>>
    THEN LET s == send_simple_template(rule, template[1], script._contact_list, envs_a, flag)
         IN  [raised |-> s.raised, pipelines |-> <<>>, notifies |-> s.notifies,
              flag |-> s.flag]
    ELSE IF script._data_list # <<>>
    THEN LET d == send_data_list(rule, template[1], script._data_list, found, envs_b)
         IN  [raised |-> d.raised, pipelines |-> d.pipelines, notifies |-> <<>>,
              flag |-> flag]
    ELSE nothing

SendScheduledMessage ==
    /\ sched.pc = "idle"
    /\ call.n < MaxCalls
    /\ self.notification_type = "Scheduler Event"
    /\ \E script \in Scripts, template \in Templates :
       \E found \in FoundDocs(script), envs_a \in GraphEnvSeqs(script),
          envs_b \in EnvSeqs(script) :
          \E r \in {send_scheduled_message(self, script, template, found, envs_a, envs_b,
                                           integration_request)} :
              /\ Persist(r.pipelines \o r.notifies)
              /\ integration_request' = r.flag
              /\ call' = [op |-> "send_scheduled_message", n |-> call.n + 1,
                          raised |-> r.raised, pipelines |-> r.pipelines,
                          notifies |-> r.notifies, before |-> Before]
    /\ UNCHANGED <<self, sched>>

----------------------------------------------------------------------------
(* Scheduler Entry Point: trigger_notifications and get_documents_for_today *)

\* a Datetime value is <<day, second of the day, microsecond>>
LastSecond == 86399

\* lexicographic order, as the database compares the formatted values
DateLeq(a, b) ==
    \/ a[1] < b[1]
    \/ a[1] = b[1] /\ a[2] < b[2]
    \/ a[1] = b[1] /\ a[2] = b[2] /\ a[3] <= b[3]

\* the reference day without the sign change of "Days After"
ReferenceDateForward(rule, today) == today + rule.days_in_advance

\* add_to_date(nowdate(), days=diff_days): the day the rule looks at
ReferenceDate(rule, today) ==
    LET diff_days == IF rule.doctype_event = "Days After"
                     THEN 0 - rule.days_in_advance
                     ELSE rule.days_in_advance
    IN  today + diff_days

reference_date_start(reference_date) == <<reference_date, 0, 0>>

reference_date_end(reference_date) == <<reference_date, LastSecond, 0>>

\* the names frappe.get_all returns for the two date filters
DocumentsForToday(rule, today, table) ==
    LET reference_date == ReferenceDate(rule, today)
    IN  {d \in DOMAIN table :
            /\ DateLeq(reference_date_start(reference_date), table[d][rule.date_changed])
            /\ DateLeq(table[d][rule.date_changed], reference_date_end(reference_date))}

\* trigger_notifications: whether this rule is among those the daily tick runs
TickRuns(rule, flags, method) ==
    /\ ~(flags.in_import \/ flags.in_patch)
    /\ method = "daily"
    /\ rule.doctype_event \in {"Days Before", "Days After"}
    /\ ~rule.disabled

\* the rules the scheduler may meet
SchedRules ==
    {WithAttachment([BaseRule EXCEPT !.doctype_event = ev,
                                     !.days_in_advance = n,
                                     !.condition = c], a)
        : ev \in {"Days Before", "Days After"}, n \in 0..MaxOffset, c \in Conditions,
          a \in {x \in AttachmentConfigs : ~x.custom_attachment}}
    \cup {[BaseRule EXCEPT !.doctype_event = "Days Before", !.disabled = TRUE],
          BaseRule}

Today == MaxOffset + 2

TimesOfDay == {<<0, 0>>, <<LastSecond, 0>>, <<LastSecond, 500000>>}

\* the due dates of the stored records around a reference date
DueDates(reference_date) ==
    {<<day, t[1], t[2]>> : day \in (reference_date - 1)..(reference_date + 1),
                           t \in TimesOfDay}

Tables(reference_date) == [DocNames -> [due_date : DueDates(reference_date)]]

\* the orders in which get_all may list a set of names
Orders(names) ==
    {order \in [1..Cardinality(names) -> names] :
        \A i, j \in 1..Cardinality(names) : i # j => order[i] # order[j]}

\* the record frappe.get_doc loads for a name
DocsNamed(name) ==
    {[doc EXCEPT !.name = name] : doc \in {Doc, [Doc EXCEPT !.mobile = <<>>]}}

\* what the world may answer to one send of the scheduled path: each stage
\* of the pipeline failing, and the send going through
SchedEnvs ==
    {e \in Envs :
        \/ e.response = DefaultEnv.response
        \/ e.response = Nothing
        \/ e.response = Some([status_code |-> 500, body |-> Some(BodyError)])}

InitSched ==
    /\ self \in SchedRules
    /\ InitStores

\* the tick: the guards of trigger_notifications, then, for the rule, the
\* query of get_documents_for_today
TriggerNotifications ==
    /\ sched.pc = "idle"
    /\ \E flags \in {[in_import |-> FALSE, in_patch |-> FALSE],
                     [in_import |-> TRUE, in_patch |-> FALSE],
                     [in_import |-> FALSE, in_patch |-> TRUE]},
          method \in {"daily", "hourly"} :
          IF TickRuns(self, flags, method)
          THEN \E table \in Tables(ReferenceDate(self, Today)) :
               \E doc_list \in Orders(DocumentsForToday(self, Today, table)) :
                  sched' = [pc |-> IF doc_list = <<>> THEN "done" ELSE "loop",
                            queried |-> TRUE, today |-> Today, table |-> table,
                            doc_list |-> doc_list, remaining |-> doc_list,
                            invoked |-> <<>>, raised |-> Nothing]
          ELSE sched' = [pc |-> "done", queried |-> FALSE, today |-> Today,
                         table |-> EmptyDict, doc_list |-> <<>>, remaining |-> <<>>,
                         invoked |-> <<>>, raised |-> Nothing]
    /\ UNCHANGED <<self, requests_sent, messages, logs, db_value, integration_request, call>>

\* the loop of get_documents_for_today: the pipeline for the next record; an
\* exception it raises leaves the loop and the tick
SendToNextDocument ==
    /\ sched.pc = "loop"
    /\ \E doc \in DocsNamed(Head(sched.remaining)), env \in SchedEnvs :
          LET r == send_template_message(self, doc, None, Nothing, FALSE, env)
              p == Pipeline(self, doc, None, Nothing, FALSE, env, r)
              rest == Tail(sched.remaining)
          IN  /\ Persist(<<p>>)
              /\ call' = [op |-> "get_documents_for_today", n |-> call.n,
                          raised |-> r.raised, pipelines |-> <<p>>, notifies |-> <<>>,
                          before |-> Before]
              /\ sched' = [sched EXCEPT
                              !.pc = IF r.raised # Nothing \/ rest = <<>>
                                     THEN "done" ELSE "loop",
                              !.remaining = rest,
                              !.invoked = Append(sched.invoked, doc.name),
                              !.raised = r.raised]
    /\ UNCHANGED <<self, integration_request>>

NextSched ==
    \/ TriggerNotifications
    \/ SendToNextDocument

SpecSched == InitSched /\ [][NextSched]_vars

----------------------------------------------------------------------------
(* Rendering: send_template_message for rules with field mappings *)

\* the fields a rule may map, in the order it maps them
FieldNames == <<"subject", "status", "priority">>

RenderFields == {SubSeq(FieldNames, 1, m) : m \in 0..MaxFields}

\* bodies with the placeholders 1..k in ascending and in descending order
RECURSIVE AscendingBody(_)
AscendingBody(k) ==
    IF k = 0 THEN <<"a">> ELSE AscendingBody(k - 1) \o Placeholder(k) \o <<"a">>

RECURSIVE DescendingBody(_)
DescendingBody(k) ==
    IF k = 0 THEN <<"a">> ELSE Placeholder(k) \o <<"a">> \o DescendingBody(k - 1)

\* the bodies: k placeholders for each k, and one placeholder used twice
RenderBodies ==
    {AscendingBody(k) : k \in 0..MaxPlaceholders}
    \cup {DescendingBody(k) : k \in 1..MaxPlaceholders}
    \cup {Placeholder(1) \o Placeholder(1)}

RenderRules == {[BaseRule EXCEPT !.code = b, !.fields = f] : b \in RenderBodies, f \in RenderFields}

\* the values a mapped field may hold: plain text, a word the site may have
\* a translation for, text that reads as a placeholder
ParameterValues ==
    {<<"x">>, <<"O", "p", "e", "n">>, Placeholder(1), Placeholder(2)}

RECURSIVE DocsWithValues(_)
DocsWithValues(i) ==
    IF i = 0 THEN {Doc}
    ELSE {[d EXCEPT ![FieldNames[i]] = v] : d \in DocsWithValues(i - 1), v \in ParameterValues}

RenderDocs == DocsWithValues(MaxFields)

\* the site's Arabic translations: none, or one for "Open" (written here in
\* Latin letters)
TranslationTables ==
    {{}, {[msg |-> <<"O", "p", "e", "n">>, translated |-> <<"m", "f", "t", "u", "h">>]}}

RenderEnvs == {[DefaultEnv EXCEPT !.translations = t] : t \in TranslationTables}

InitRender ==
    /\ self \in RenderRules
    /\ InitStores

\* send_template_message(doc) for a rule with field mappings; the call keeps
\* the record and the translations it ran with
SendWithParameters ==
    /\ sched.pc = "idle"
    /\ call.n < MaxCalls
    /\ \E doc \in RenderDocs, env \in RenderEnvs :
       \E r \in {send_template_message(self, doc, None, Nothing, FALSE, env)} :
          LET p == Pipeline(self, doc, None, Nothing, FALSE, env, r)
          IN  /\ Persist(<<p>>)
              /\ call' = [op |-> "send_template_message", n |-> call.n + 1,
                          raised |-> r.raised, pipelines |-> <<p>>, notifies |-> <<>>,
                          before |-> Before, doc_data |-> doc,
                          translations |-> env.translations]
    /\ UNCHANGED <<self, integration_request, sched>>

NextRender == SendWithParameters

SpecRender == InitRender /\ [][NextRender]_vars

Next ==
    \/ SendTemplateMessage
    \/ SendScheduledMessage

Spec == Init /\ [][Next]_vars

----------------------------------------------------------------------------
(* Properties *)

\* the pipelines of the last call that reached the dispatch client's HTTP call
DispatchedPipelines == {i \in 1..Len(call.pipelines) : call.pipelines[i].dispatched}

\* Backend B: the provider answered 200 or 201
Accepted(p) == p.status # Nothing /\ p.status[1] \in {200, 201}

\* the record was saved: nothing raised before the save returned
SaveReturned(attempt) == attempt.caught = Nothing \/ attempt.caught[1].at = "set_value"

\* the log entry of a dispatch attempt
LogOf(attempt) == attempt.logs[1]

\* what the last call added to the stores
AddedLogs == Len(logs) - call.before.logs
AddedMessages == Len(messages) - call.before.messages
AddedRequests == Len(requests_sent) - call.before.requests

\* C1 as stated: every dispatch attempt of either backend writes exactly one
\* Notification Log entry, and exactly one Sent Message Record whenever the
\* provider accepted the message, whatever happens afterwards.
C1_OneLogAndOneMessageWhenAccepted ==
    /\ \A i \in DispatchedPipelines :
          LET p == call.pipelines[i]
          IN  /\ Len(p.logs) = 1
              /\ Len(p.messages) <= 1
              /\ Accepted(p) => Len(p.messages) = 1
    /\ \A i \in 1..Len(call.notifies) :
          LET a == call.notifies[i]
          IN  /\ Len(a.logs) = 1
              /\ Len(a.messages) <= 1
              /\ a.accepted => Len(a.messages) = 1
    /\ AddedLogs = Cardinality(DispatchedPipelines) + Len(call.notifies)

\* C1 amended: every dispatch attempt of either backend writes exactly one
\* Notification Log entry and at most one Sent Message Record: exactly one
\* when the provider accepted the message and nothing raised before the
\* record was saved (decoding the response, reading the message id, the
\* save itself), none otherwise.
C1_OneLogAtMostOneMessage ==
    /\ \A i \in DispatchedPipelines :
          LET p == call.pipelines[i]
          IN  /\ Len(p.logs) = 1
              /\ Len(p.messages) = IF Accepted(p) /\ SaveReturned(p) THEN 1 ELSE 0
    /\ \A i \in 1..Len(call.notifies) :
          LET a == call.notifies[i]
          IN  /\ Len(a.logs) = 1
              /\ Len(a.messages) = IF a.accepted /\ SaveReturned(a) THEN 1 ELSE 0
    /\ AddedLogs = Cardinality(DispatchedPipelines) + Len(call.notifies)
    /\ AddedMessages =
          Cardinality({i \in DispatchedPipelines :
                          Accepted(call.pipelines[i]) /\ SaveReturned(call.pipelines[i])})
          + Cardinality({i \in 1..Len(call.notifies) :
                          call.notifies[i].accepted /\ SaveReturned(call.notifies[i])})

\* a Backend B dispatch the provider accepted, with its message and its log
C1_Witness ==
    /\ call.op = "send_template_message"
    /\ \E i \in DispatchedPipelines :
          /\ Accepted(call.pipelines[i])
          /\ AddedMessages = 1
          /\ AddedLogs = 1

\* C2 as stated: in a daily tick the pipeline is invoked for every record the
\* date query matched, even when the pipeline of an earlier record failed.
C2_EveryMatchedRecordInvoked ==
    (sched.pc = "done" /\ sched.queried) => sched.invoked = sched.doc_list

\* C3: a send_template_message call without ignore_condition whose condition
\* evaluates false makes no HTTP call and writes no Sent Message Record, no
\* Notification Log entry and no write-back, and raises nothing.
C3_FalseConditionSkipsSilently ==
    \A i \in 1..Len(call.pipelines) :
        LET p == call.pipelines[i]
        IN  p.condition_false =>
                /\ p.requests = <<>>
                /\ p.messages = <<>>
                /\ p.logs = <<>>
                /\ p.set_value = Nothing
                /\ p.raised = Nothing
                /\ AddedRequests = 0 /\ AddedMessages = 0 /\ AddedLogs = 0
                /\ db_value = call.before.db_value

C3_Witness ==
    /\ call.op = "send_template_message"
    /\ call.pipelines[1].condition_false
    /\ ~call.pipelines[1].ignore_condition
    /\ call.pipelines[1].skipped

\* the error detail a rejected request's JSON body carries
BodyErrorDetail(body) ==
    IF "response" \in DOMAIN body /\ "message" \in DOMAIN body.response
    THEN body.response.message
    ELSE <<"Unknown Error">>

\* a rejected Backend B request writes no message, no write-back and one
\* failure log entry
RejectedWritesFailureLog(p) ==
    /\ p.messages = <<>>
    /\ p.set_value = Nothing
    /\ Len(p.logs) = 1
    /\ LogOf(p).meta_data.success = FALSE
    /\ LogOf(p).meta_data.response = Nothing

\* C4 as stated: a Backend B response whose status is not 200 or 201 gives no
\* Sent Message Record, no write-back and exactly one failure log entry
\* holding the error message extracted from the response body.
C4_RejectedLogsBodyError ==
    \A i \in DispatchedPipelines :
        LET p == call.pipelines[i]
        IN  (p.status # Nothing /\ ~Accepted(p)) =>
                /\ RejectedWritesFailureLog(p)
                /\ p.body # Nothing
                /\ LogOf(p).meta_data.error = Some(BodyErrorDetail(p.body[1]))

\* C4 amended: ... exactly one failure log entry, holding the body's
\* response.message when the body is a JSON object ("Unknown Error" when it
\* has none), and the decoding error's message when the body is not JSON.
C4_RejectedLogsError ==
    \A i \in DispatchedPipelines :
        LET p == call.pipelines[i]
        IN  (p.status # Nothing /\ ~Accepted(p)) =>
                /\ RejectedWritesFailureLog(p)
                /\ p.body # Nothing =>
                      LogOf(p).meta_data.error = Some(BodyErrorDetail(p.body[1]))
                /\ p.body = Nothing =>
                      LogOf(p).meta_data.error \in
                          {Some(<<"Connection error: ", "Expecting value">>),
                           Some(<<"Expecting value">>)}
                /\ AddedMessages = 0
                /\ db_value = call.before.db_value

C4_Witness ==
    \E i \in DispatchedPipelines :
        /\ call.pipelines[i].status = Some(500)
        /\ call.pipelines[i].body = Some(BodyError)
        /\ AddedLogs = 1

\* the rule has a write-back configured
WriteBackConfigured == self.set_property_after_alert # "" /\ Truthy(self.property_value)

\* the configured value as the write-back field holds it
ConfiguredValue ==
    IF self.set_property_after_alert = "notified"
    THEN [int |-> 1]
    ELSE [str |-> self.property_value]

\* a successful text send: one text message, one success log entry and the
\* write-back when configured
TextSendRecorded(p) ==
    /\ Len(p.messages) = 1
    /\ p.messages[1].content_type = "text"
    /\ Len(p.logs) = 1
    /\ LogOf(p).meta_data.success = TRUE
    /\ WriteBackConfigured =>
          db_value[p.doc][self.set_property_after_alert] = Some(ConfiguredValue)

C6_ExceptionsCapturedAndLogged ==
    /\ \A i \in DispatchedPipelines :
          LET p == call.pipelines[i]
          IN  p.caught # Nothing =>
                  /\ p.raised = Nothing
                  /\ p.set_value = Nothing
                  /\ LogOf(p).meta_data.success = FALSE
                  /\ LogOf(p).meta_data.error # Nothing
    /\ \A i \in 1..Len(call.notifies) :
          LET a == call.notifies[i]
          IN  a.caught # Nothing =>
                  /\ a.raised = Nothing
                  /\ a.set_value = Nothing
                  /\ "error" \in DOMAIN LogOf(a).meta_data

\* C7: a configuration error of the Backend B path (no phone number, no
\* template, gateway settings missing or lacking base URL or instance name)
\* is raised to the caller before any network call: no HTTP request, no Sent
\* Message Record, no write-back.
C7_ConfigErrorAbortsBeforeNetwork ==
    \A i \in 1..Len(call.pipelines) :
        LET p == call.pipelines[i]
        IN  p.config_error # "" =>
                /\ p.raised # Nothing
                /\ call.raised = p.raised
                /\ i = Len(call.pipelines)
                /\ p.requests = <<>>
                /\ p.messages = <<>>
                /\ p.set_value = Nothing
                /\ (call.op = "send_template_message" =>
                       /\ AddedRequests = 0
                       /\ AddedMessages = 0
                       /\ db_value = call.before.db_value)

C7_Witness ==
    /\ call.op = "send_template_message"
    /\ call.pipelines[1].config_error = "settings"
    /\ call.raised = Some("Evolution Phone Settings not configured")

\* the day a scheduled rule is about
TargetDay ==
    IF self.doctype_event = "Days Before"
    THEN sched.today + self.days_in_advance
    ELSE sched.today - self.days_in_advance

\* the time of day lies within 00:00:00 - 23:59:59
WithinDayWindow(date) == date[2] < 86399 \/ (date[2] = 86399 /\ date[3] = 0)

C9_AttachmentIffFilename ==
    \A i \in 1..Len(call.pipelines) :
        LET p == call.pipelines[i]
        IN  p.resolved => (Truthy(p.attachment_url) <=> Truthy(p.filename))

\* C9 amended: the resolver never hands over a filename without an
\* attachment; a document print comes with both, no attachment mode with
\* neither, and a custom attachment comes with the rule's file name, which
\* may be empty.
C9_FilenameOnlyWithAttachment ==
    \A i \in 1..Len(call.pipelines) :
        LET p == call.pipelines[i]
        IN  p.resolved =>
                /\ Truthy(p.filename) => Truthy(p.attachment_url)
                /\ self.attach_document_print =>
                      Truthy(p.attachment_url) /\ Truthy(p.filename)
                /\ (~self.attach_document_print /\ ~self.custom_attachment) =>
                      p.attachment_url = None /\ p.filename = None
                /\ (~self.attach_document_print /\ self.custom_attachment) =>
                      Truthy(p.attachment_url) /\ p.filename = self.file_name

C9_Witness ==
    \E i \in 1..Len(call.pipelines) :
        /\ call.pipelines[i].resolved
        /\ self.custom_attachment
        /\ Truthy(call.pipelines[i].attachment_url)
        /\ Truthy(call.pipelines[i].filename)

\* the three payload shapes of Backend B
IsTextShape(p) ==
    /\ p.requests[1].url[2] = "/message/sendText/"
    /\ DOMAIN p.requests[1].payload = {"number", "text"}
    /\ \A j \in 1..Len(p.messages) : p.messages[j].content_type = "text"

IsDocumentShape(p) ==
    /\ p.requests[1].url[2] = "/message/sendMedia/"
    /\ DOMAIN p.requests[1].payload =
          {"number", "mediatype", "mimetype", "caption", "media", "fileName"}
    /\ p.requests[1].payload.mediatype = "document"
    /\ p.requests[1].payload.mimetype = "application/pdf"
    /\ p.requests[1].payload.fileName = p.filename
    /\ \A j \in 1..Len(p.messages) : p.messages[j].content_type = "document"

IsImageShape(p) ==
    /\ p.requests[1].url[2] = "/message/sendMedia/"
    /\ DOMAIN p.requests[1].payload = {"number", "mediatype", "caption", "media"}
    /\ p.requests[1].payload.mediatype = "image"
    /\ \A j \in 1..Len(p.messages) : p.messages[j].content_type = "image"

\* the spellings of the suffix that differ in case only
PdfSuffixSpellings ==
    {<<".", a, b, c>> : a \in {"p", "P"}, b \in {"d", "D"}, c \in {"f", "F"}}

\* C10 as stated: no attachment -> text shape; attachment whose filename ends
\* in ".pdf" -> document shape; any other attachment -> image shape.
C10_ShapeByLiteralSuffix ==
    \A i \in DispatchedPipelines :
        LET p == call.pipelines[i]
            pdf == Truthy(p.filename) /\ EndsWith(p.filename, <<".", "p", "d", "f">>)
        IN  /\ ~Truthy(p.attachment_url) => IsTextShape(p)
            /\ (Truthy(p.attachment_url) /\ pdf) => IsDocumentShape(p)
            /\ (Truthy(p.attachment_url) /\ ~pdf) => IsImageShape(p)

\* C10 amended: ... attachment whose filename ends in ".pdf" in any letter
\* case -> document shape; any other attachment -> image shape.
C10_ShapeBySuffixAnyCase ==
    \A i \in DispatchedPipelines :
        LET p == call.pipelines[i]
            pdf == /\ Truthy(p.filename)
                   /\ \E suffix \in PdfSuffixSpellings : EndsWith(p.filename, suffix)
        IN  /\ ~Truthy(p.attachment_url) => IsTextShape(p)
            /\ (Truthy(p.attachment_url) /\ pdf) => IsDocumentShape(p)
            /\ (Truthy(p.attachment_url) /\ ~pdf) => IsImageShape(p)

C10_Witness ==
    \E i \in DispatchedPipelines :
        /\ call.pipelines[i].filename = <<"R", ".", "P", "D", "F">>
        /\ call.pipelines[i].requests[1].payload.mediatype = "document"
        /\ Len(call.pipelines[i].messages) = 1

\* the body with every placeholder {{i}}, i <= m, replaced by the i-th of the
\* m values, and everything else as it is
RECURSIVE Substituted(_, _)
Substituted(text, values) ==
    IF text = <<>> THEN <<>>
    ELSE LET here == {i \in 1..Len(values) :
                         /\ Len(text) >= Len(Placeholder(i))
                         /\ SubSeq(text, 1, Len(Placeholder(i))) = Placeholder(i)}
         IN  IF here # {}
             THEN LET i == CHOOSE j \in here : TRUE
                  IN  values[i] \o Substituted(SubSeq(text, Len(Placeholder(i)) + 1, Len(text)),
                                               values)
             ELSE <<Head(text)>> \o Substituted(Tail(text), values)

\* C11 as stated: for a body with k placeholders and the m values of the
\* rule's field mappings, the text sent is the body with the i-th placeholder
\* replaced by the i-th value for every i <= m; with m < k the placeholders
\* m+1..k stay as they are, and nothing is raised.
C11_PlaceholdersReplacedByValues ==
    (call.op = "send_template_message" /\ "doc_data" \in DOMAIN call) =>
        LET values == [i \in 1..Len(self.fields) |-> call.doc_data[self.fields[i]]]
        IN  /\ call.raised = Nothing
            /\ Len(call.pipelines[1].requests) = 1
            /\ call.pipelines[1].requests[1].payload.text = Substituted(self.code, values)

\* C11 where no value reads as a placeholder and the site translates none:
\* the same statement, which the code meets
C11_PlainValuesReplaced ==
    (/\ call.op = "send_template_message"
     /\ "doc_data" \in DOMAIN call
     /\ call.translations = {}
     /\ \A i \in 1..Len(self.fields) :
           call.doc_data[self.fields[i]] \in {<<"x">>, <<"O", "p", "e", "n">>}) =>
        LET values == [i \in 1..Len(self.fields) |-> call.doc_data[self.fields[i]]]
        IN  /\ call.raised = Nothing
            /\ call.pipelines[1].requests[1].payload.text = Substituted(self.code, values)

====
